---- MODULE Spec2Model ----
(***************************************************************************)
(* Model of jasp/jasp.py: the directory-state controller Jasp(), the       *)
(* validator calculation_is_ok() and the context manager class jasp.       *)
(*                                                                         *)
(* The directory is a record of sentinel facts.  Jasp() is translated      *)
(* statement by statement into the function Step over a frame (program     *)
(* counter named after the source line, locals, directory); Run iterates   *)
(* Step until the invocation returns or raises.                            *)
(***************************************************************************)
EXTENDS Integers, Sequences, FiniteSets, TLC

VARIABLES
    dir,             \* the job directory: sentinel facts
    inQueue,         \* answer of job_in_queue(None)
    post_run_hooks,  \* hooks registered on the calculator class, in order
    args,            \* the arguments the calling script passes to Jasp()
    cwd,             \* process working directory: "orig" or "vaspdir"
    dirExists,       \* os.path.isdir(vaspdir)
    ncalls,          \* number of completed invocations
    last,            \* record of the most recent invocation
    prev,            \* record of the invocation before it
    procs,           \* the invocations in progress, one per calling process
    hist             \* which invocations deleted jobid / fired a hook

vars == <<dir, inQueue, post_run_hooks, args, cwd, dirExists, ncalls, last,
          prev, procs, hist>>

\* ------------------------------------------------------------------ bounds
MaxHooks == 2
MaxCalls == 2
NumProcs == 2

\* ------------------------------------------------------------ the directory
ContcarStates == {"absent", "empty", "data"}
OutcarStates  == {"absent", "nolines", "truncated", "complete"}

Dirs ==
    [INCAR : BOOLEAN, jobid : BOOLEAN, running : BOOLEAN,
     CONTCAR : ContcarStates, OUTCAR : OutcarStates, vasprun : BOOLEAN,
     CHGCAR : BOOLEAN, WAVECAR : BOOLEAN, METADATA : BOOLEAN,
     images : BOOLEAN, sortdat : BOOLEAN]

\* os.path.exists(name) in the job directory
Exists(d, name) ==
    CASE name = "INCAR"    -> d.INCAR
      [] name = "jobid"    -> d.jobid
      [] name = "running"  -> d.running
      [] name = "CONTCAR"  -> d.CONTCAR # "absent"
      [] name = "OUTCAR"   -> d.OUTCAR # "absent"
      [] name = "vasprun"  -> d.vasprun
      [] name = "CHGCAR"   -> d.CHGCAR
      [] name = "WAVECAR"  -> d.WAVECAR
      [] name = "METADATA" -> d.METADATA

\* the arguments of Jasp(): 'spring' in kwargs, atoms given, the keep flags
\* override: the parameter the other kwargs set ("float": a float parameter,
\* "input": an input parameter, "images": the int parameter images)
Overrides == {"none", "float", "input", "images"}

ArgSets ==
    [spring : BOOLEAN, atoms : BOOLEAN,
     keep_chgcar : BOOLEAN, keep_wavecar : BOOLEAN, override : Overrides]

\* the parameter groups of the calculator (351-358)
Groups == {"float", "exp", "string", "int", "input", "bool", "list", "dict"}

\* cur[g]: 0 while group g is as read from the files, 1 once set by kwargs;
\* old[g]: the old_* copy of group g (-1: not taken); snaps[g]: how many
\* times old_* of group g was assigned
NoCalc == [kind |-> "unbound", vasp_queued |-> FALSE, vasp_running |-> FALSE,
           images |-> FALSE, metadata |-> FALSE, snapshot |-> FALSE,
           cur |-> [g \in Groups |-> 0], old |-> [g \in Groups |-> -1],
           snaps |-> [g \in Groups |-> 0]]

\* the groups calc.set(**kwargs) writes: spring is a float parameter
ChangedBy(a) ==
    (IF a.spring THEN {"float"} ELSE {})
    \cup (CASE a.override = "float"  -> {"float"}
            [] a.override = "input"  -> {"input"}
            [] a.override = "images" -> {"int"}
            [] OTHER -> {})

\* calc.set(**kwargs) (145, 360)
ApplyOverrides(c, a) ==
    [c EXCEPT !.cur = [g \in Groups |-> IF g \in ChangedBy(a) THEN 1
                                        ELSE c.cur[g]],
              !.images = @ \/ a.override = "images"]

\* self.old_input_params = self.input_params.copy() (252)
SnapshotInput(c) ==
    [c EXCEPT !.old = [@ EXCEPT !["input"] = c.cur["input"]],
              !.snaps = [@ EXCEPT !["input"] = @ + 1]]

\* calc.old_<group>_params = calc.<group>_params.copy() (351-358)
SnapshotParams(c) ==
    [c EXCEPT !.old = c.cur,
              !.snaps = [g \in Groups |-> c.snaps[g] + 1],
              !.snapshot = TRUE]

\* the groups whose value differs from its old_* copy
Diff(c) == {g \in Groups : c.old[g] # c.cur[g]}

\* ------------------------------------------------- calculation_is_ok (58-94)
\* variant without the os.unlink('jobid') of line 83
calculation_is_ok_KeepsJobid(d) ==
    IF d.CONTCAR = "absent"
    THEN [dir |-> d, exc |-> "IOError"]
    ELSE IF d.CONTCAR = "empty"
    THEN [dir |-> [d EXCEPT !.CONTCAR = "absent"], exc |-> "VaspNotFinished"]
    ELSE IF d.OUTCAR = "absent"
    THEN [dir |-> d, exc |-> "IOError"]
    ELSE IF d.OUTCAR = "nolines"
    THEN [dir |-> d, exc |-> "IndexError"]
    ELSE IF d.OUTCAR = "truncated"
    THEN [dir |-> d, exc |-> "VaspNotFinished"]
    ELSE [dir |-> d, exc |-> "none"]

\* variant that also removes CONTCAR when the OUTCAR is truncated
calculation_is_ok_DropsContcar(d) ==
    IF d.CONTCAR = "absent"
    THEN [dir |-> d, exc |-> "IOError"]
    ELSE IF d.CONTCAR = "empty"
    THEN LET d1 == [d EXCEPT !.CONTCAR = "absent"]
         IN  IF d1.jobid
             THEN [dir |-> [d1 EXCEPT !.jobid = FALSE],
                   exc |-> "VaspNotFinished"]
             ELSE [dir |-> d1, exc |-> "OSError"]
    ELSE IF d.OUTCAR = "absent"
    THEN [dir |-> d, exc |-> "IOError"]
    ELSE IF d.OUTCAR = "nolines"
    THEN [dir |-> d, exc |-> "IndexError"]
    ELSE IF d.OUTCAR = "truncated"
    THEN [dir |-> [d EXCEPT !.CONTCAR = "absent"], exc |-> "VaspNotFinished"]
    ELSE [dir |-> d, exc |-> "none"]

\* Result of the validator in directory d: the directory it leaves and the
\* exception it raises ("none": it returned True).  The jobid argument only
\* selects the queue output file quoted in the message (66-76).
calculation_is_ok(d) ==
    IF d.CONTCAR = "absent"
    THEN [dir |-> d, exc |-> "IOError"]                       \* 78: open fails
    ELSE IF d.CONTCAR = "empty"
    THEN LET d1 == [d EXCEPT !.CONTCAR = "absent"]            \* 82
         IN  IF d1.jobid
             THEN [dir |-> [d1 EXCEPT !.jobid = FALSE],       \* 83
                   exc |-> "VaspNotFinished"]                 \* 84
             ELSE [dir |-> d1, exc |-> "OSError"]             \* 83: no jobid
    ELSE IF d.OUTCAR = "absent"
    THEN [dir |-> d, exc |-> "IOError"]                       \* 87
    ELSE IF d.OUTCAR = "nolines"
    THEN [dir |-> d, exc |-> "IndexError"]                    \* 89: lines[-1]
    ELSE IF d.OUTCAR = "truncated"
    THEN [dir |-> d, exc |-> "VaspNotFinished"]               \* 89-93
    ELSE [dir |-> d, exc |-> "none"]                          \* 94

\* ------------------------------------------------------- condition probing
\* A condition of the if/elif chain is a conjunction of literals <<fact, want>>
\* evaluated left to right with short-circuit; "queue" is job_in_queue(None).
Fact(d, q, name) == IF name = "queue" THEN q ELSE Exists(d, name)

FirstFail(lits, d, q) ==
    LET S == {i \in 1..Len(lits) : Fact(d, q, lits[i][1]) # lits[i][2]}
    IN  IF S = {} THEN 0 ELSE CHOOSE i \in S : \A j \in S : i <= j

CondValue(lits, d, q) == FirstFail(lits, d, q) = 0

CondProbes(lits, d, q) ==
    LET ff == FirstFail(lits, d, q)
        n  == IF ff = 0 THEN Len(lits) ELSE ff
    IN  [i \in 1..n |-> lits[i][1]]

Rule2 == << <<"INCAR", FALSE>> >>                                      \* 150
Rule3 == << <<"jobid", FALSE>>, <<"INCAR", TRUE>>,
            <<"CONTCAR", FALSE>> >>                                    \* 158-161
\* variant of the condition at 206-208 that checks the running flag first
Rule4_RunningFirst == << <<"jobid", TRUE>>, <<"running", FALSE>>,
                         <<"queue", TRUE>> >>

Rule4 == << <<"jobid", TRUE>>, <<"queue", TRUE>>,
            <<"running", FALSE>> >>                                    \* 206-208
Rule5 == << <<"jobid", TRUE>>, <<"queue", TRUE>>,
            <<"running", TRUE>> >>                                     \* 260-262
Rule6 == << <<"jobid", TRUE>>, <<"queue", FALSE>>,
            <<"running", FALSE>> >>                                    \* 279-281
Rule7 == << <<"jobid", FALSE>>, <<"running", FALSE>>,
            <<"CONTCAR", TRUE>>, <<"OUTCAR", TRUE>>,
            <<"vasprun", TRUE>> >>                                     \* 328-332

\* ------------------------------------------------------------- the frame
\* One activation of Jasp(): pc is the source line about to execute.
Frame0(d) ==
    [pc |-> "L141", dir |-> d,
     selfBound |-> FALSE, self_keep_chgcar |-> FALSE,
     self_keep_wavecar |-> FALSE,
     calc |-> NoCalc, hk |-> 0, created |-> 0,
     fired |-> <<>>, entered |-> <<>>, probes |-> <<>>, exc |-> "none"]

Terminal == {"return", "raise"}

Raise(f, e) == [f EXCEPT !.pc = "raise", !.exc = e]

\* evaluate a chain condition: log its probes, go to yes or no
Branch(f, lits, q, yes, no, state) ==
    LET f1 == [f EXCEPT !.probes = @ \o CondProbes(lits, f.dir, q)]
    IN  IF CondValue(lits, f.dir, q)
        THEN [f1 EXCEPT !.pc = yes, !.entered = Append(@, state)]
        ELSE [f1 EXCEPT !.pc = no]

\* The calculator objects the collaborators build.  Vasp, read_incar,
\* read_potcar, read_kpoints, read_neb_calculator, neb_initialize and ase.io
\* live outside this file; they are taken to succeed, so the only exceptions
\* of an invocation are the ones raised by the statements of this file.
FreshCalc   == [NoCalc EXCEPT !.kind = "fresh"]
NebCalc     == [NoCalc EXCEPT !.kind = "neb", !.images = TRUE]
InputCalc(d) == [NoCalc EXCEPT !.kind = "inputs", !.images = d.images]
LoadedCalc(d) == IF d.images THEN NebCalc
                 ELSE [NoCalc EXCEPT !.kind = "loaded"]

\* variant that does not fail when jobid is already gone
UnlinkJobid_IgnoreMissing(f) ==
    [f EXCEPT !.dir = [@ EXCEPT !.jobid = FALSE], !.pc = "L294"]

\* variant that goes on without deleting jobid
UnlinkJobid_Skip(f) == [f EXCEPT !.pc = "L294"]

\* os.unlink('jobid') (292)
UnlinkJobid(f) ==
    IF f.dir.jobid
    THEN [f EXCEPT !.dir = [@ EXCEPT !.jobid = FALSE], !.pc = "L294"]
    ELSE Raise(f, "OSError")

\* variant that creates METADATA without looking for an existing one
CreateMetadata_Always(f) ==
    [f EXCEPT !.probes = Append(@, "METADATA"),
              !.dir = [@ EXCEPT !.METADATA = TRUE],
              !.created = @ + 1,
              !.pc = "return"]

\* create a METADATA file if there is none and the job is no NEB (363-367)
CreateMetadata(f) ==
    IF ~f.dir.METADATA /\ ~f.calc.images
    THEN [f EXCEPT !.probes = Append(@, "METADATA"),
                   !.dir = [@ EXCEPT !.METADATA = TRUE],
                   !.created = @ + 1,
                   !.pc = "return"]
    ELSE [f EXCEPT !.probes = Append(@, "METADATA"), !.pc = "return"]

\* ------------------------------------------------------- Jasp() (103-367)
\* One statement group of Jasp().  a: the arguments, q: the answer
\* job_in_queue(None) gives at this step, hooks: calc.post_run_hooks.
Step(f, a, q, hooks) ==
    LET d == f.dir IN
    CASE f.pc = "L141" ->                                    \* 'spring' in kwargs
           IF a.spring
           THEN [f EXCEPT !.pc = "L143", !.entered = Append(@, "NEB")]
           ELSE [f EXCEPT !.pc = "L150"]
      [] f.pc = "L143" ->                                    \* 143-147
           [f EXCEPT !.calc = ApplyOverrides(NebCalc, a), !.pc = "L318"]
      [] f.pc = "L150" -> Branch(f, Rule2, q, "L151", "L158", "Empty")
      [] f.pc = "L151" ->                                    \* 151-155
           [f EXCEPT !.calc = FreshCalc, !.pc = "L318"]
      [] f.pc = "L158" -> Branch(f, Rule3, q, "L170", "L206", "Configured")
      [] f.pc = "L170" ->                                    \* 170-203
           [f EXCEPT !.calc = IF d.images THEN NebCalc ELSE InputCalc(d),
                     !.pc = "L318"]
      [] f.pc = "L206" -> Branch(f, Rule4, q, "L215", "L260", "Queued")
      [] f.pc = "L215" ->                                    \* 215-257
           LET f1 == [f EXCEPT !.selfBound = TRUE,
                               !.self_keep_chgcar = a.keep_chgcar,
                               !.self_keep_wavecar = a.keep_wavecar]
           IN  IF ~d.images /\ ~d.sortdat /\ ~a.atoms
               THEN Raise(f1, "TypeError")                   \* 240: len(None)
               ELSE [f1 EXCEPT !.calc = [SnapshotInput(InputCalc(d)) EXCEPT
                                           !.vasp_queued = TRUE],
                               !.pc = "L318"]
      [] f.pc = "L260" -> Branch(f, Rule5, q, "L264", "L279", "Running")
      [] f.pc = "L264" ->                                    \* 264-275
           [f EXCEPT !.calc = [LoadedCalc(d) EXCEPT !.vasp_running = TRUE],
                     !.pc = "L318"]
      [] f.pc = "L279" -> Branch(f, Rule6, q, "L285", "L318", "FinishedFirst")
      [] f.pc = "L285" ->                                    \* 285-286
           IF d.jobid THEN [f EXCEPT !.pc = "L288"]
           ELSE Raise(f, "IOError")
      [] f.pc = "L288" ->                                    \* 288-289
           LET r == calculation_is_ok(d)
           IN  IF r.exc = "none"
               THEN [f EXCEPT !.dir = r.dir, !.pc = "L292"]
               ELSE Raise([f EXCEPT !.dir = r.dir], r.exc)
      [] f.pc = "L292" ->                                    \* 292
           UnlinkJobid(f)
      [] f.pc = "L294" ->                                    \* 294-310
           [f EXCEPT !.calc = LoadedCalc(d), !.pc = "L314"]
      [] f.pc = "L314" ->                                    \* 314
           IF Len(hooks) > 0
           THEN [f EXCEPT !.hk = 1, !.pc = "L315"]
           ELSE [f EXCEPT !.pc = "L318"]
      [] f.pc = "L315" ->                                    \* 315-316
           [f EXCEPT !.fired = Append(@, hooks[f.hk]),
                     !.hk = @ + 1,
                     !.pc = IF f.hk = Len(hooks) THEN "L318" ELSE "L315"]
      [] f.pc = "L318" ->                                    \* 318-320
           IF ~f.selfBound
           THEN Raise(f, "UnboundLocalError")                \* self not bound
           ELSE IF ~f.self_keep_chgcar
           THEN [f EXCEPT !.probes = Append(@, "CHGCAR"),
                          !.dir = [d EXCEPT !.CHGCAR = FALSE],
                          !.pc = "L322"]
           ELSE [f EXCEPT !.pc = "L322"]
      [] f.pc = "L322" ->                                    \* 322-344
           IF ~f.self_keep_wavecar /\ d.WAVECAR
           THEN [f EXCEPT !.probes = Append(@, "WAVECAR"),
                          !.dir = [d EXCEPT !.WAVECAR = FALSE],
                          !.pc = "L346"]
           ELSE LET f1 == [f EXCEPT !.probes =
                             @ \o (IF f.self_keep_wavecar THEN <<>>
                                   ELSE <<"WAVECAR">>)]
                    f2 == Branch(f1, Rule7, q, "L335", "L343", "FinishedPrev")
                IN  IF f2.pc = "L343"
                    THEN Raise([f2 EXCEPT !.entered =
                                  Append(@, "Unrecognized")],
                               "VaspUnknownState")           \* 343
                    ELSE f2
      [] f.pc = "L335" ->                                    \* 335-341
           LET r == calculation_is_ok(d)
           IN  IF r.exc = "none"
               THEN [f EXCEPT !.dir = r.dir, !.calc = LoadedCalc(d),
                              !.pc = "L346"]
               ELSE Raise([f EXCEPT !.dir = r.dir], r.exc)
      [] f.pc = "L346" ->                                    \* 346-347
           [f EXCEPT !.probes = Append(@, "METADATA"),
                     !.calc = [@ EXCEPT !.metadata = d.METADATA],
                     !.pc = "L351"]
      [] f.pc = "L351" ->                                    \* 351-358
           [f EXCEPT !.calc = SnapshotParams(@), !.pc = "L360"]
      [] f.pc = "L360" ->                                    \* 360
           [f EXCEPT !.calc = ApplyOverrides(@, a), !.pc = "L363"]
      [] f.pc = "L363" ->                                    \* 363-367
           CreateMetadata(f)
      [] OTHER -> f

\* a whole invocation: run the frame to its end
RECURSIVE Run(_, _, _, _)
Run(f, a, q, hooks) ==
    IF f.pc \in Terminal THEN f ELSE Run(Step(f, a, q, hooks), a, q, hooks)

Jasp(d, a, q, hooks) == Run(Frame0(d), a, q, hooks)

\* ------------------------------------------------- class jasp (370-430)
\* jasp.__enter__ entered from working directory c: the directory is made
\* if missing (413-414), the process changes into it (417) and Jasp() runs
\* there (420); an exception of Jasp() leaves __enter__ at line 420.
jasp__enter__(d, a, q, hooks) ==
    LET f == Jasp(d, a, q, hooks)
    IN  [frame |-> f, cwd |-> "vaspdir", dirExists |-> TRUE]

\* jasp.__exit__ (425-430): back to the directory saved by __init__ (388);
\* returning False lets the exception of the body propagate.
jasp__exit__(savedCwd, bodyExc) == [cwd |-> savedCwd, exc |-> bodyExc]

\* `with jasp(vaspdir) as calc: body` (487-493) once __enter__ has run with
\* result e: an exception of __enter__ leaves the statement without calling
\* __exit__; otherwise the body runs (raising bodyExc or nothing) and
\* __exit__ runs with the directory c saved by __init__.
WithJasp(e, c, bodyExc) ==
    IF e.frame.pc = "raise"
    THEN [cwd |-> e.cwd, exc |-> e.frame.exc, exited |-> FALSE]
    ELSE LET x == jasp__exit__(c, bodyExc)
         IN  [cwd |-> x.cwd, exc |-> x.exc, exited |-> TRUE]

\* ------------------------------------------------------- the state machine
EmptyDir ==
    [INCAR |-> FALSE, jobid |-> FALSE, running |-> FALSE,
     CONTCAR |-> "absent", OUTCAR |-> "absent", vasprun |-> FALSE,
     CHGCAR |-> FALSE, WAVECAR |-> FALSE, METADATA |-> FALSE,
     images |-> FALSE, sortdat |-> FALSE]

\* registries of k hooks, registered in the order 1..k
HookRegistries == {[i \in 1..k |-> i] : k \in {0, MaxHooks}}

BodyOutcomes == {"none", "VaspSubmitted", "BodyError"}

Record(op, pre, c0, f, exc, exited) ==
    [op |-> op, pre |-> pre, post |-> f.dir, cwd0 |-> c0, exc |-> exc,
     returned |-> (f.pc = "return"), calc |-> f.calc, fired |-> f.fired,
     entered |-> f.entered, probes |-> f.probes, exited |-> exited,
     created |-> f.created]

NoCall == Record("none", EmptyDir, "orig", Frame0(EmptyDir), "none", FALSE)

\* the calling processes; none has an invocation in progress
Procs == 1..NumProcs

NoProcs ==
    [p \in Procs |-> [active |-> FALSE, id |-> 0, pre |-> EmptyDir,
                      frame |-> Frame0(EmptyDir)]]

NoHist == [deleters |-> {}, firers |-> {}]

InitCommon ==
    /\ dir \in {d \in Dirs : (d.images \/ d.sortdat) => d.INCAR}
    /\ inQueue \in BOOLEAN
    /\ post_run_hooks \in HookRegistries
    /\ args \in {a \in ArgSets : a.override = "none"}
    /\ ncalls = 0
    /\ last = NoCall
    /\ prev = NoCall
    /\ procs = NoProcs
    /\ hist = NoHist

\* the script has changed into the job directory and calls Jasp() there
Init ==
    /\ InitCommon
    /\ cwd = "vaspdir"
    /\ dirExists = TRUE

JaspCall ==
    /\ ncalls < MaxCalls
    /\ cwd = "vaspdir"
    /\ \E f \in {Jasp(dir, args, inQueue, post_run_hooks)} :
           /\ dir' = f.dir
           /\ last' = Record("Jasp", dir, cwd, f, f.exc, FALSE)
    /\ prev' = last
    /\ ncalls' = ncalls + 1
    /\ UNCHANGED <<inQueue, post_run_hooks, args, cwd, dirExists, procs, hist>>

Next == JaspCall

Spec == Init /\ [][Next]_vars

\* the script passes further keyword arguments to Jasp()
InitKw ==
    /\ dir \in {d \in Dirs : (d.images \/ d.sortdat) => d.INCAR}
    /\ inQueue \in BOOLEAN
    /\ post_run_hooks = [i \in 1..MaxHooks |-> i]
    /\ args \in ArgSets
    /\ ncalls = 0
    /\ last = NoCall
    /\ prev = NoCall
    /\ procs = NoProcs
    /\ hist = NoHist
    /\ cwd = "vaspdir"
    /\ dirExists = TRUE

NextKw == JaspCall

SpecKw == InitKw /\ [][NextKw]_vars

\* the script is elsewhere and enters the job directory through
\* `with jasp(vaspdir) as calc:`; the directory may not exist yet
InitCtx ==
    /\ InitCommon
    /\ post_run_hooks = [i \in 1..MaxHooks |-> i]
    /\ cwd = "orig"
    /\ dirExists \in {b \in BOOLEAN : ~b => dir = EmptyDir}

WithCall ==
    /\ ncalls < MaxCalls
    /\ \E e \in {jasp__enter__(dir, args, inQueue, post_run_hooks)} :
           /\ dir' = e.frame.dir
           /\ dirExists' = e.dirExists
           /\ \E b \in BodyOutcomes :
                LET w == WithJasp(e, cwd, b)
                IN  /\ cwd' = w.cwd
                    /\ last' = Record("with", dir, cwd, e.frame, w.exc,
                                      w.exited)
    /\ prev' = last
    /\ ncalls' = ncalls + 1
    /\ UNCHANGED <<inQueue, post_run_hooks, args, procs, hist>>

NextCtx == WithCall

SpecCtx == InitCtx /\ [][NextCtx]_vars

\* calculation_is_ok() called on its own in the job directory
InitVal ==
    /\ InitCommon
    /\ post_run_hooks = <<>>
    /\ args = [spring |-> FALSE, atoms |-> FALSE,
               keep_chgcar |-> FALSE, keep_wavecar |-> FALSE,
               override |-> "none"]
    /\ cwd = "vaspdir"
    /\ dirExists = TRUE

ValidatorCall ==
    /\ ncalls < MaxCalls
    /\ \E r \in {calculation_is_ok(dir)} :
           /\ dir' = r.dir
           /\ last' = [Record("calculation_is_ok", dir, cwd, Frame0(dir),
                              r.exc, FALSE)
                         EXCEPT !.returned = (r.exc = "none")]
    /\ prev' = last
    /\ ncalls' = ncalls + 1
    /\ UNCHANGED <<inQueue, post_run_hooks, args, cwd, dirExists, procs, hist>>

NextVal == ValidatorCall

SpecVal == InitVal /\ [][NextVal]_vars

\* ---------------------------------------------- invocations step by step
\* Several processes call Jasp() in the same directory; one action is one
\* statement group of one invocation (Step), acting on the shared directory.
\* The directory holds a submitted job that has left the queue (INCAR and
\* jobid present, running absent); the result files vary.
InitSteps ==
    /\ dir \in {d \in Dirs : /\ d.INCAR /\ d.jobid /\ ~d.running
                              /\ ~d.METADATA /\ ~d.sortdat}
    /\ inQueue = FALSE
    /\ post_run_hooks \in HookRegistries
    /\ args = [spring |-> FALSE, atoms |-> FALSE,
               keep_chgcar |-> FALSE, keep_wavecar |-> FALSE,
               override |-> "none"]
    /\ ncalls = 0
    /\ last = NoCall
    /\ prev = NoCall
    /\ procs = NoProcs
    /\ hist = NoHist
    /\ cwd = "vaspdir"
    /\ dirExists = TRUE

\* process p calls Jasp() (103)
Start(p) ==
    /\ ncalls < MaxCalls
    /\ ~procs[p].active
    /\ procs' = [procs EXCEPT ![p] = [active |-> TRUE, id |-> ncalls + 1,
                                      pre |-> dir, frame |-> Frame0(dir)]]
    /\ ncalls' = ncalls + 1
    /\ UNCHANGED <<dir, inQueue, post_run_hooks, args, cwd, dirExists, last,
                   prev, hist>>

\* process p calls Jasp() while no other invocation is in progress
StartAlone(p) ==
    /\ \A r \in Procs : ~procs[r].active
    /\ Start(p)

\* the invocation of process p executes its next statement group
StepProc(p) ==
    /\ procs[p].active
    /\ \E g \in {Step([procs[p].frame EXCEPT !.dir = dir], args, inQueue,
                       post_run_hooks)} :
         /\ dir' = g.dir
         /\ hist' = [deleters |-> hist.deleters \cup
                        (IF dir.jobid /\ ~g.dir.jobid
                         THEN {procs[p].id} ELSE {}),
                     firers |-> hist.firers \cup
                        (IF Len(g.fired) > Len(procs[p].frame.fired)
                         THEN {procs[p].id} ELSE {})]
         /\ IF g.pc \in Terminal
            THEN /\ procs' = [procs EXCEPT ![p].active = FALSE,
                                           ![p].frame = g]
                 /\ last' = Record("Jasp", procs[p].pre, cwd, g, g.exc, FALSE)
                 /\ prev' = last
            ELSE /\ procs' = [procs EXCEPT ![p].frame = g]
                 /\ UNCHANGED <<last, prev>>
    /\ UNCHANGED <<inQueue, post_run_hooks, args, cwd, dirExists, ncalls>>

\* the calling process is killed in the middle of its invocation
Kill(p) ==
    /\ procs[p].active
    /\ procs' = [procs EXCEPT ![p].active = FALSE]
    /\ last' = Record("Jasp", procs[p].pre, cwd,
                      [procs[p].frame EXCEPT !.dir = dir], "killed", FALSE)
    /\ prev' = last
    /\ UNCHANGED <<dir, inQueue, post_run_hooks, args, cwd, dirExists, ncalls,
                   hist>>

NextConc == \E p \in Procs : Start(p) \/ StepProc(p)

SpecConc == InitSteps /\ [][NextConc]_vars

NextKill == \E p \in Procs : StartAlone(p) \/ StepProc(p) \/ Kill(p)

SpecKill == InitSteps /\ [][NextKill]_vars

\* The external engine finishes writing OUTCAR between two invocations: its
\* last line now holds the marker calculation_is_ok looks for (63, 89).
EngineCompletesOutcar ==
    /\ dir.OUTCAR = "truncated"
    /\ dir' = [dir EXCEPT !.OUTCAR = "complete"]
    /\ UNCHANGED <<inQueue, post_run_hooks, args, cwd, dirExists, ncalls,
                   last, prev, procs, hist>>

NextRetry == JaspCall \/ EngineCompletesOutcar

SpecRetry == Init /\ [][NextRetry]_vars

\* ------------------------------------------------------------ claim helpers
\* The state whose pattern is the first to match, in the precedence order of
\* the conditions at 141, 150, 158, 206, 260, 279 and 328.
Pattern(d, q, spring) ==
    IF spring THEN "NEB"
    ELSE IF CondValue(Rule2, d, q) THEN "Empty"
    ELSE IF CondValue(Rule3, d, q) THEN "Configured"
    ELSE IF CondValue(Rule4, d, q) THEN "Queued"
    ELSE IF CondValue(Rule5, d, q) THEN "Running"
    ELSE IF CondValue(Rule6, d, q) THEN "FinishedFirst"
    ELSE IF CondValue(Rule7, d, q) THEN "FinishedPrev"
    ELSE "Unrecognized"

LastPattern == Pattern(last.pre, inQueue, args.spring)
PrevPattern == Pattern(prev.pre, inQueue, args.spring)

JaspCalled == last.op = "Jasp"
TwoJaspCalls == ncalls >= 2 /\ prev.op = "Jasp" /\ last.op = "Jasp"

ValidResult(d) == d.CONTCAR = "data" /\ d.OUTCAR = "complete"

Range(sq) == {sq[i] : i \in DOMAIN sq}

\* ---------------------------------------------------------------- claims

\* C1 (as stated): from 'Finished, first observation' with a valid result the
\* first Jasp() deletes jobid, calls every registered hook exactly once in
\* registration order and returns a handle; the second Jasp() calls no hook.
C1_ExactlyOnceHooks ==
    (/\ TwoJaspCalls
     /\ PrevPattern = "FinishedFirst"
     /\ prev.pre.INCAR /\ ValidResult(prev.pre))
    => /\ ~last.pre.jobid
       /\ prev.fired = post_run_hooks
       /\ prev.returned
       /\ last.fired = <<>>

\* C2 (as stated): once control leaves `with jasp(path) as calc:`, on every
\* exit path, the working directory is the one that was current before
\* entering, and the exception raised inside (if any) propagates unchanged.
C2_CwdRestored ==
    last.op = "with"
    => /\ cwd = last.cwd0
       /\ (~last.returned => last.exc # "none")

\* C3 (as stated): one Jasp() invocation executes the action of exactly one
\* state, the first one in precedence order whose pattern matches, and no
\* part of any other state's action.
C3_ExactlyOneState ==
    JaspCalled => last.entered = <<LastPattern>>

\* C4 (as stated): a sentinel combination matching none of states 1-7 makes
\* Jasp() raise VaspUnknownState and leaves the directory unchanged.
C4_UnrecognizedFatal ==
    (JaspCalled /\ LastPattern = "Unrecognized")
    => /\ last.exc = "VaspUnknownState"
       /\ dir = last.pre

\* C5 (as stated): without INCAR (and without spring) Jasp() resolves Empty,
\* returns a fresh handle and neither probes nor changes jobid or running,
\* nor queries the queue.
C5_EmptyState ==
    (JaspCalled /\ ~args.spring /\ ~last.pre.INCAR)
    => /\ last.entered = <<"Empty">>
       /\ last.returned
       /\ last.calc.kind = "fresh"
       /\ Range(last.probes) \cap {"jobid", "running", "queue"} = {}
       /\ dir.jobid = last.pre.jobid
       /\ dir.running = last.pre.running

\* C6 (as stated): with INCAR present, jobid absent and CONTCAR absent (no
\* spring) Jasp() resolves Configured-not-submitted and returns a handle
\* rebuilt from the input files, whether or not the running file exists.
C6_ConfiguredState ==
    (/\ JaspCalled /\ ~args.spring
     /\ last.pre.INCAR /\ ~last.pre.jobid /\ last.pre.CONTCAR = "absent")
    => /\ last.entered = <<"Configured">>
       /\ last.returned
       /\ last.calc.kind \in {"inputs", "neb"}

\* C7 (as stated): in state Queued-not-running Jasp() returns a handle with
\* vasp_queued set, in state Queued-and-running one with vasp_running set;
\* never both flags, and in every other state neither flag.
C7_QueueFlags ==
    JaspCalled
    => /\ LastPattern = "Queued"
            => (last.returned /\ last.calc.vasp_queued)
       /\ LastPattern = "Running"
            => (last.returned /\ last.calc.vasp_running)
       /\ ~(last.calc.vasp_queued /\ last.calc.vasp_running)
       /\ LastPattern \notin {"Queued", "Running"}
            => (~last.calc.vasp_queued /\ ~last.calc.vasp_running)

\* C8 (as stated): in 'Finished, previously observed' with a valid result two
\* successive Jasp() invocations both return a handle with the same content,
\* leave the same sentinel files and call no hook.
C8_FinishedPrevIdempotent ==
    (/\ TwoJaspCalls
     /\ PrevPattern = "FinishedPrev"
     /\ ValidResult(prev.pre))
    => /\ prev.returned /\ last.returned
       /\ prev.calc = last.calc
       /\ dir = last.pre
       /\ prev.fired = <<>> /\ last.fired = <<>>

\* C9 (as stated): calculation_is_ok run where CONTCAR has zero length, with
\* jobid present or absent, fails with VaspNotFinished and leaves neither
\* CONTCAR nor jobid in the directory.
C9_EmptyContcarRejected ==
    (last.op = "calculation_is_ok" /\ last.pre.CONTCAR = "empty")
    => /\ last.exc = "VaspNotFinished"
       /\ dir.CONTCAR = "absent"
       /\ ~dir.jobid

\* C10: from INCAR and jobid present, job not in queue, running absent and a
\* zero-length CONTCAR, the first Jasp() fails with VaspNotFinished and
\* removes CONTCAR and jobid; the next Jasp() resolves
\* Configured-not-submitted and does not raise VaspNotFinished.
C10_RecoveryAfterEmptyResult ==
    (/\ TwoJaspCalls /\ ~args.spring /\ ~inQueue
     /\ prev.pre.INCAR /\ prev.pre.jobid /\ ~prev.pre.running
     /\ prev.pre.CONTCAR = "empty")
    => /\ prev.exc = "VaspNotFinished"
       /\ last.pre.CONTCAR = "absent" /\ ~last.pre.jobid
       /\ last.entered = <<"Configured">>
       /\ last.exc # "VaspNotFinished"

C10_Witness ==
    /\ TwoJaspCalls /\ ~args.spring /\ ~inQueue
    /\ prev.pre.INCAR /\ prev.pre.jobid /\ ~prev.pre.running
    /\ prev.pre.CONTCAR = "empty"
    /\ prev.exc = "VaspNotFinished"
    /\ last.entered = <<"Configured">>

\* C11 (as stated): whenever the last OUTCAR line lacks the termination
\* marker (also when OUTCAR has no line at all) calculation_is_ok fails with
\* VaspNotFinished whatever CONTCAR contains; it returns True only when
\* CONTCAR is non-empty and the last OUTCAR line has the marker.  (The
\* zero-length CONTCAR without a jobid file is the case of C9 and is left
\* out here.)
C11_TruncatedLogRejected ==
    last.op = "calculation_is_ok"
    => /\ (/\ last.pre.CONTCAR # "absent"
           /\ last.pre.CONTCAR = "empty" => last.pre.jobid
           /\ last.pre.OUTCAR \in {"nolines", "truncated"})
          => last.exc = "VaspNotFinished"
       /\ last.returned => ValidResult(last.pre)

\* C12 (as stated): in every Jasp() invocation that returns a handle the
\* old_* snapshot of every group is taken exactly once, after state
\* resolution and before the overrides, so that the groups differing from
\* their snapshot are exactly the groups the overrides change.
C12_SnapshotOnce ==
    (JaspCalled /\ last.returned)
    => /\ \A g \in Groups : last.calc.snaps[g] = 1
       /\ Diff(last.calc) = ChangedBy(args)

\* C20: create_metadata runs only in an invocation that resolved a non-fatal
\* state, only when METADATA is absent and the handle has no images
\* parameter after the overrides; an existing METADATA is read and not
\* created again, so it is created at most once over successive invocations;
\* every invocation returning a handle without images leaves METADATA present.
C20_MetadataCreation ==
    JaspCalled
    => /\ last.created <= 1
       /\ last.created = 1
            => /\ last.returned
               /\ last.entered # <<>>
               /\ "Unrecognized" \notin Range(last.entered)
               /\ ~last.pre.METADATA
               /\ ~last.calc.images
       /\ last.pre.METADATA
            => /\ last.created = 0
               /\ dir.METADATA
               /\ last.returned => last.calc.metadata
       /\ (last.returned /\ ~last.calc.images) => dir.METADATA
       /\ TwoJaspCalls => prev.created + last.created <= 1

C20_Witness ==
    /\ JaspCalled
    /\ last.returned /\ last.created = 1
    /\ ~last.pre.METADATA /\ dir.METADATA
    /\ args.override = "float"

JobidDeleted == last.pre.jobid /\ ~dir.jobid

\* C13 (as stated): an invocation deletes jobid if and only if it resolved
\* 'Finished, first observation' and the validator succeeded; an invocation
\* whose validator fails, or which resolves another state, leaves jobid.
C13_JobidDeletedIffFinished ==
    JaspCalled
    => (JobidDeleted <=> (/\ last.entered # <<>>
                          /\ last.entered[1] = "FinishedFirst"
                          /\ ValidResult(last.pre)))

\* C13 (amended): an invocation deletes jobid if and only if it resolved
\* 'Finished, first observation' and the validator either succeeded or
\* rejected a zero-length CONTCAR (which it deletes together with jobid);
\* every other invocation leaves jobid as it was.
C13_JobidDeletedIffFinishedOrEmpty ==
    JaspCalled
    => /\ JobidDeleted <=> (/\ last.entered # <<>>
                            /\ last.entered[1] = "FinishedFirst"
                            /\ \/ ValidResult(last.pre)
                               \/ last.pre.CONTCAR = "empty")
       /\ ~JobidDeleted => dir.jobid = last.pre.jobid

C13_Witness ==
    /\ JaspCalled /\ JobidDeleted
    /\ last.entered = <<"FinishedFirst">>
    /\ last.pre.CONTCAR = "empty"
    /\ last.exc = "VaspNotFinished"

\* C14 (as stated): in each of states 1-7 (with a result the validator
\* accepts) Jasp() returns the handle of the resolved state, with CHGCAR
\* absent unless keep_chgcar and WAVECAR absent unless keep_wavecar, a kept
\* file untouched, and the cleanup changes neither the resolved state nor
\* turns it into an error.
C14_CacheCleanup ==
    (/\ JaspCalled
     /\ LastPattern # "Unrecognized"
     /\ LastPattern \in {"FinishedFirst", "FinishedPrev"}
          => ValidResult(last.pre))
    => /\ last.returned
       /\ last.entered = <<LastPattern>>
       /\ ~args.keep_chgcar => ~dir.CHGCAR
       /\ ~args.keep_wavecar => ~dir.WAVECAR
       /\ args.keep_chgcar => dir.CHGCAR = last.pre.CHGCAR
       /\ args.keep_wavecar => dir.WAVECAR = last.pre.WAVECAR

\* the queue queries among the probes of the last invocation
QueueProbes == {i \in DOMAIN last.probes : last.probes[i] = "queue"}

\* C18 (as stated): the facts are probed in the order INCAR, jobid, running
\* flag, queue: the queue is never queried before the running flag has been
\* checked for the rule being evaluated, and it is queried once.
C18_ProbeOrder ==
    JaspCalled
    => /\ \A i \in QueueProbes : i > 1 /\ last.probes[i - 1] = "running"
       /\ Cardinality(QueueProbes) <= 1

\* C18 (amended): without spring the first probe is INCAR; every queue query
\* directly follows a jobid check, and the running flag is checked directly
\* after the queue query of its rule (or after jobid in the rule of 328);
\* the queue is queried afresh for each of the rules at 206, 260 and 279,
\* up to three times in one invocation.
C18_ProbeOrderQueueFirst ==
    JaspCalled
    => /\ ~args.spring => (last.probes # <<>> /\ last.probes[1] = "INCAR")
       /\ \A i \in QueueProbes : i > 1 /\ last.probes[i - 1] = "jobid"
       /\ \A i \in DOMAIN last.probes :
            last.probes[i] = "running"
            => (i > 1 /\ last.probes[i - 1] \in {"queue", "jobid"})
       /\ Cardinality(QueueProbes) <= 3

C18_Witness ==
    /\ JaspCalled
    /\ Cardinality(QueueProbes) = 3
    /\ "running" \in Range(last.probes)

\* C19: whatever the state and whether it returns or raises, an invocation
\* deletes at most jobid, a zero-length CONTCAR, CHGCAR and WAVECAR and
\* creates at most METADATA; INCAR, running, OUTCAR and vasprun.xml are left
\* as they were and jobid is never created.
C19_SideEffectFrame ==
    JaspCalled
    => /\ dir.INCAR = last.pre.INCAR
       /\ dir.running = last.pre.running
       /\ dir.OUTCAR = last.pre.OUTCAR
       /\ dir.vasprun = last.pre.vasprun
       /\ dir.images = last.pre.images
       /\ dir.sortdat = last.pre.sortdat
       /\ dir.jobid => last.pre.jobid
       /\ \/ dir.CONTCAR = last.pre.CONTCAR
          \/ (last.pre.CONTCAR = "empty" /\ dir.CONTCAR = "absent")
       /\ dir.CHGCAR => last.pre.CHGCAR
       /\ dir.WAVECAR => last.pre.WAVECAR
       /\ last.pre.METADATA => dir.METADATA

C19_Witness ==
    /\ JaspCalled /\ last.returned
    /\ last.pre.CHGCAR /\ ~dir.CHGCAR
    /\ last.pre.WAVECAR /\ ~dir.WAVECAR
    /\ ~last.pre.METADATA /\ dir.METADATA
    /\ last.pre.CONTCAR = "data" /\ dir.CONTCAR = "data"

\* C15 (as stated, its hook part): in 'Finished, first observation' with a
\* valid result, if the calling process is killed at any point of a Jasp()
\* invocation and Jasp() is invoked again, every registered hook ends up
\* invoked exactly once over the two invocations.  (The other part, that the
\* rerun returns the loaded handle, fails as in C1.)
C15_RestartSafe ==
    (/\ ncalls >= 2
     /\ prev.op = "Jasp" /\ prev.exc = "killed"
     /\ last.op = "Jasp" /\ last.exc # "killed"
     /\ last.pre = prev.post
     /\ PrevPattern = "FinishedFirst" /\ ValidResult(prev.pre))
    => prev.fired \o last.fired = post_run_hooks

\* C16 (as stated): in 'Finished, first observation' with a non-empty
\* CONTCAR and an OUTCAR whose last line lacks the marker, Jasp() raises
\* VaspNotFinished, calls no hook and deletes no file, and the directory is
\* still 'Finished, first observation'; once OUTCAR ends with the marker the
\* next invocation succeeds, deletes jobid and fires the hooks exactly once.
C16_NotFinishedRetry ==
    /\ (/\ JaspCalled
        /\ LastPattern = "FinishedFirst"
        /\ last.pre.CONTCAR = "data" /\ last.pre.OUTCAR = "truncated")
       => /\ last.exc = "VaspNotFinished"
          /\ last.fired = <<>>
          /\ last.post = last.pre
          /\ Pattern(last.post, inQueue, args.spring) = "FinishedFirst"
    /\ (/\ TwoJaspCalls
        /\ PrevPattern = "FinishedFirst"
        /\ prev.pre.CONTCAR = "data" /\ prev.pre.OUTCAR = "truncated"
        /\ last.pre = [prev.post EXCEPT !.OUTCAR = "complete"])
       => /\ last.returned
          /\ ~last.post.jobid
          /\ last.fired = post_run_hooks

\* C17: when invocations of several processes interleave on a directory in
\* 'Finished, first observation', at most one of them deletes jobid, at most
\* one of them fires hooks, and an invocation that did not delete jobid
\* itself never fires a hook.
C17_HarvestSerialised ==
    /\ Cardinality(hist.deleters) <= 1
    /\ Cardinality(hist.firers) <= 1
    /\ hist.firers \subseteq hist.deleters

C17_Witness ==
    /\ Cardinality(hist.firers) = 1
    /\ \E p \in Procs :
         /\ procs[p].id \notin hist.firers
         /\ procs[p].frame.entered = <<"FinishedFirst">>
         /\ procs[p].frame.pc = "raise"
         /\ procs[p].frame.exc = "OSError"

====
